---- MODULE Spec2Model ----
(***************************************************************************)
(* The Account ledger of src/main.py (Order, Position, Trade, Account) and *)
(* the price table STOCK_PRICES it reads.  One action per Account method;  *)
(* a method that raises is a step too: it records the exception in `last`  *)
(* and keeps whatever the method had already mutated when it raised.       *)
(*                                                                         *)
(* Every method is an operator from an account value to an account value   *)
(* (make_order, execute_order, buy_stock, ...); the actions apply it to    *)
(* the current account.  Five specifications explore it: Spec (every       *)
(* method, one listed ticker), SpecMarket (buying and selling while the    *)
(* price moves), SpecPair (buying and selling two tickers), SpecPending    *)
(* (orders made before and executed after a price move) and SpecFill       *)
(* (orders filled in parts by the caller who holds them).                  *)
(*                                                                         *)
(* Prices in the table are integers; a position's average price is the     *)
(* quotient of Position.update, which Python computes in binary floating   *)
(* point and which is kept here as the exact fraction <<n, d>>.            *)
(***************************************************************************)
EXTENDS Integers, Sequences, FiniteSets, TLC

\* ---------------------------------------------------------------- bounds
\* the ledger specification (Spec): every Account method with its quantity
\* given, one listed ticker
MaxOrders == 2      \* longest order list explored
MaxTrades == 1      \* longest trade list explored
MaxHold   == 2      \* largest |qty| of a position explored
MaxCash   == 200    \* largest balance explored
\* the market specification (SpecMarket): buying and selling one ticker,
\* also with the quantity omitted (which buys or sells 0 shares when there is
\* no money or no holding), while its price moves
MktOrders == 2
MktTrades == 1
MktHold   == 3
MktCash   == 600
MaxMoves  == 1      \* price changes explored
MaxDenom  == 3      \* largest denominator of an average price explored
\* the two-ticker specification (SpecPair): buying and selling two tickers
PairOrders == 3
PairTrades == 2
PairHold   == 2
PairCash   == 800

\* the pending-order specification (SpecPending): orders are made, the price
\* moves, and the orders are executed afterwards
PendOrders == 2
PendHold   == 1
PendCash   == 600

\* the fill specification (SpecFill): orders are made and filled in parts
FillOrders == 2

\* ---------------------------------------------------------------- inputs
BUY  == "BUY"
SELL == "SELL"
Action == {BUY, SELL}

\* tickers a caller passes: a listed one and one that is not listed
Tickers      == {"AAPL", "TSLA"}
\* quantities a caller passes (a negative one is refused)
Quantities   == {0 - 1, 1}
\* money amounts a caller passes to Account(), deposit and withdraw
Amounts      == {0 - 200, 0, 200}
\* the market specification
MktQuantities == {1, 2}
MktAmounts    == {0 - 1, 400, 600}
\* the two-ticker specification: two listed tickers
PairTickers    == {"AAPL", "MSFT"}
PairQuantities == {1, 2}
PairAmounts    == {0 - 1, 400, 800}
\* prices the table may move to
NewPrices     == {200, 300}

\* the fill specification: amounts ordered and amounts passed to fill
FillQuantities == {0, 1, 3}
FillAmounts    == {0 - 1, 0, 1, 2}

NoError == "none"

VARIABLES
    STOCK_PRICES,   \* ticker -> price (the module-level table)
    constructed,    \* Account.__post_init__ has returned normally
    cash,           \* Account.cash
    positions,      \* Account.positions, in dict (insertion) order
    orders,         \* Account.orders
    trades,         \* Account.trades
    last,           \* the last call: method and exception raised
    moves           \* price changes so far

vars == <<STOCK_PRICES, constructed, cash, positions, orders, trades, last, moves>>

\* ------------------------------------------------------------- fractions
Abs(x) == IF x < 0 THEN 0 - x ELSE x

RECURSIVE GCD(_, _)
GCD(a, b) == IF b = 0 THEN a ELSE GCD(b, a % b)

\* the fraction n/d (d # 0) in lowest terms with a positive denominator
Frac(n, d) ==
    LET g == GCD(Abs(n), Abs(d))
        s == IF d < 0 THEN 0 - 1 ELSE 1
    IN  <<(s * n) \div g, (s * d) \div g>>

FInt(k)      == <<k, 1>>
FAdd(x, y)   == Frac(x[1] * y[2] + y[1] * x[2], x[2] * y[2])
FSub(x, y)   == Frac(x[1] * y[2] - y[1] * x[2], x[2] * y[2])
FScale(x, k) == Frac(x[1] * k, x[2])

\* ---------------------------------------------------------- price table
\* get_stock_price(ticker) raises LookupError for a ticker not in the table
Listed(ticker) == ticker \in DOMAIN STOCK_PRICES

get_stock_price(ticker) == STOCK_PRICES[ticker]

\* ------------------------------------------------------------------ Order
\* Order.__post_init__: the exception it raises, if any
OrderError(ticker, action, amount) ==
    IF amount < 0 THEN "ValueError"
    ELSE IF action \notin Action THEN "ValueError"
    ELSE IF ~Listed(ticker) THEN "LookupError"
    ELSE NoError

\* Order(ticker, action, amount): price is read from the table at creation
Order(ticker, action, amount) ==
    [ticker |-> ticker, action |-> action, amount |-> amount,
     price |-> get_stock_price(ticker), filled |-> 0]

\* Order.fill() with no amount
fill(order) == [order EXCEPT !.filled = order.amount]

remaining(order) == order.amount - order.filled

\* mutant: the amount is checked against the amount ordered
fillError_against_amount(order, amount) ==
    IF amount < 0 THEN "ValueError"
    ELSE IF amount > order.amount THEN "ValueError"
    ELSE NoError

\* Order.fill(amount): the exception it raises, if any
fillError(order, amount) ==
    IF amount < 0 THEN "ValueError"
    ELSE IF amount > remaining(order) THEN "ValueError"
    ELSE NoError

\* Order.fill(amount) when it does not raise
fill_amount(order, amount) == [order EXCEPT !.filled = order.filled + amount]

size(order) == order.amount * order.price

\* mutant: the sign of a SELL is lost
get_size_unsigned(order, absval) == size(order)

get_size(order, absval) ==
    IF order.action = BUY \/ absval THEN size(order) ELSE 0 - size(order)

status(order) ==
    IF order.filled = order.amount THEN "FILLED"
    ELSE IF 0 < order.filled /\ order.filled < order.amount THEN "PARTIALLY_FILLED"
    ELSE "UNFILLED"

\* --------------------------------------------------------------- Position
Position(ticker) == [ticker |-> ticker, qty |-> 0, price |-> FInt(0)]

\* Position.update: the division raises when the new quantity is zero
updateError(position, qty) ==
    IF qty > 0 /\ position.qty + qty = 0 THEN "ZeroDivisionError" ELSE NoError

\* mutant: the average price is not recomputed on an increase
update_keeps_price(position, qty, new_price) ==
    [position EXCEPT !.qty = position.qty + qty]

\* Position.update(qty, new_price), new_price an integer price
update(position, qty, new_price) ==
    [position EXCEPT
        !.price = IF qty > 0
                  THEN Frac(position.qty * position.price[1]
                              + qty * new_price * position.price[2],
                            position.price[2] * (position.qty + qty))
                  ELSE @,
        !.qty = position.qty + qty]

\* the signed quantity Position.update_from_order passes to update
order_delta(order) ==
    IF order.action = BUY THEN order.amount ELSE 0 - order.amount

\* Position.pnl and Position.value against the current table price
position_pnl(position) ==
    FScale(FSub(FInt(get_stock_price(position.ticker)), position.price), position.qty)

\* mutant: the value is taken at the average price paid
position_value_at_cost(position) ==
    (position.qty * position.price[1]) \div position.price[2]

position_value(position) == position.qty * get_stock_price(position.ticker)

\* ------------------------------------------------------------------ Trade
\* Trade.__post_init__ raises when the position holds more than the order
TradeError(position, order) ==
    IF position.qty > order.amount THEN "ValueError" ELSE NoError

\* mutant: the entry price is the price of the sale
Trade_at_sale_price(position, order) ==
    [order |-> order, entry_price |-> FInt(order.price)]

Trade(position, order) == [order |-> order, entry_price |-> position.price]

trade_realized_pnl(trade) ==
    FScale(FSub(FInt(trade.order.price), trade.entry_price), trade.order.amount)

\* ---------------------------------------------------------------- Account
\* An account value: the four fields and the exception of the call in flight.
Acct(c, p, o, t, e) ==
    [cash |-> c, positions |-> p, orders |-> o, trades |-> t, err |-> e]

Cur == Acct(cash, positions, orders, trades, NoError)

Raise(a, e) == [a EXCEPT !.err = e]

\* index of ticker's position in the dict, 0 when the key is absent
PosIndex(ps, ticker) ==
    IF \E i \in 1..Len(ps) : ps[i].ticker = ticker
    THEN CHOOSE i \in 1..Len(ps) : ps[i].ticker = ticker
    ELSE 0

\* mutant: the setter stores a negative balance
set_balance_unchecked(a, amt) == [a EXCEPT !.cash = amt]

\* the balance setter
set_balance(a, amt) ==
    IF amt < 0 THEN Raise(a, "ValueError") ELSE [a EXCEPT !.cash = amt]

RECURSIVE SumPnl(_, _)
SumPnl(ps, i) ==
    IF i > Len(ps) THEN FInt(0) ELSE FAdd(position_pnl(ps[i]), SumPnl(ps, i + 1))

RECURSIVE SumValue(_, _)
SumValue(ps, i) ==
    IF i > Len(ps) THEN 0 ELSE position_value(ps[i]) + SumValue(ps, i + 1)

RECURSIVE SumRealized(_, _)
SumRealized(ts, i) ==
    IF i > Len(ts) THEN FInt(0)
    ELSE FAdd(trade_realized_pnl(ts[i]), SumRealized(ts, i + 1))

pnl(a)          == SumPnl(a.positions, 1)
realized_pnl(a) == SumRealized(a.trades, 1)
equity(a)       == a.cash + SumValue(a.positions, 1)

deposit(a, amount) ==
    IF amount < 0 THEN Raise(a, "ValueError")
    ELSE set_balance(a, a.cash + amount)

withdraw(a, amount) ==
    IF amount > a.cash THEN Raise(a, "ValueError")
    ELSE IF amount < 0 THEN Raise(a, "ValueError")
    ELSE set_balance(a, a.cash - amount)

\* mutant: only a filled order at the head of the list is removed
clear_filled_orders_head_only(a) ==
    IF a.orders # <<>> /\ status(a.orders[1]) = "FILLED"
    THEN [a EXCEPT !.orders = Tail(a.orders)]
    ELSE a

clear_filled_orders(a) ==
    [a EXCEPT !.orders = SelectSeq(a.orders, LAMBDA o : status(o) # "FILLED")]

\* mutant: the order is appended before the checks
make_order_appends_first(a, ticker, action, qty) ==
    IF OrderError(ticker, action, qty) # NoError
    THEN Raise(a, OrderError(ticker, action, qty))
    ELSE LET order == Order(ticker, action, qty)
             k     == PosIndex(a.positions, ticker)
             a1    == [a EXCEPT !.orders = Append(a.orders, order)]
         IN  IF action = BUY /\ size(order) > a.cash THEN Raise(a1, "ValueError")
             ELSE IF action = SELL /\ k = 0 THEN Raise(a1, "KeyError")
             ELSE IF action = SELL /\ qty > a.positions[k].qty THEN Raise(a1, "ValueError")
             ELSE a1

\* mutant: the order is put at the head of the list
make_order_prepends(a, ticker, action, qty) ==
    IF OrderError(ticker, action, qty) # NoError
    THEN Raise(a, OrderError(ticker, action, qty))
    ELSE LET order == Order(ticker, action, qty)
             k     == PosIndex(a.positions, ticker)
         IN  IF action = BUY /\ size(order) > a.cash THEN Raise(a, "ValueError")
             ELSE IF action = SELL /\ k = 0 THEN Raise(a, "KeyError")
             ELSE IF action = SELL /\ qty > a.positions[k].qty THEN Raise(a, "ValueError")
             ELSE [a EXCEPT !.orders = <<order>> \o a.orders]

\* make_order: the order is built first, then checked, then appended
make_order(a, ticker, action, qty) ==
    IF OrderError(ticker, action, qty) # NoError
    THEN Raise(a, OrderError(ticker, action, qty))
    ELSE LET order == Order(ticker, action, qty)
             k     == PosIndex(a.positions, ticker)
         IN  IF action = BUY /\ size(order) > a.cash THEN Raise(a, "ValueError")
             ELSE IF action = SELL /\ k = 0 THEN Raise(a, "KeyError")
             ELSE IF action = SELL /\ qty > a.positions[k].qty THEN Raise(a, "ValueError")
             ELSE [a EXCEPT !.orders = Append(a.orders, order)]

\* execute_order on the order at index i of the order list
execute_order(a, i) ==
    LET order == a.orders[i]
        ps    == IF PosIndex(a.positions, order.ticker) = 0
                 THEN Append(a.positions, Position(order.ticker))
                 ELSE a.positions
        k     == PosIndex(ps, order.ticker)
        a1    == [a EXCEPT !.positions = ps]
    IN  IF updateError(ps[k], order_delta(order)) # NoError
        THEN Raise(a1, updateError(ps[k], order_delta(order)))
        ELSE LET a2 == [a1 EXCEPT
                          !.positions[k] = update(ps[k], order_delta(order),
                                                  get_stock_price(order.ticker)),
                          !.orders[i] = fill(order)]
             IN  set_balance(a2, a2.cash - get_size(order, FALSE))

\* execute_pending_orders: the loop from index i on, stopping at an exception
RECURSIVE execute_from(_, _)
execute_from(a, i) ==
    IF i > Len(a.orders) \/ a.err # NoError THEN a
    ELSE execute_from(execute_order(a, i), i + 1)

execute_pending_orders(a) == execute_from(a, 1)

\* buy_stock(ticker, qty); dflt: qty was omitted
buy_stock(a, ticker, qty, dflt) ==
    IF dflt /\ ~Listed(ticker) THEN Raise(a, "LookupError")
    ELSE LET q  == IF dflt THEN a.cash \div get_stock_price(ticker) ELSE qty
             a1 == make_order(a, ticker, BUY, q)
         IN  IF a1.err # NoError THEN a1 ELSE execute_order(a1, Len(a1.orders))

\* sell_stock(ticker, qty); dflt: qty was omitted
sell_stock(a, ticker, qty, dflt) ==
    IF dflt /\ PosIndex(a.positions, ticker) = 0 THEN Raise(a, "KeyError")
    ELSE LET q  == IF dflt THEN a.positions[PosIndex(a.positions, ticker)].qty ELSE qty
             a1 == make_order(a, ticker, SELL, q)
             a2 == execute_order(a1, Len(a1.orders))
             p  == a2.positions[PosIndex(a2.positions, ticker)]
             o  == a2.orders[Len(a2.orders)]
         IN  IF a1.err # NoError THEN a1
             ELSE IF a2.err # NoError THEN a2
             ELSE IF TradeError(p, o) # NoError THEN Raise(a2, TradeError(p, o))
             ELSE [a2 EXCEPT !.trades = Append(a2.trades, Trade(p, o))]

\* close_positions: the loop over tickers from index i on
RECURSIVE close_from(_, _, _)
close_from(a, tickers, i) ==
    IF i > Len(tickers) \/ a.err # NoError THEN a
    ELSE close_from(sell_stock(a, tickers[i], 0, TRUE), tickers, i + 1)

\* mutant: the tickers held are closed last to first
close_positions_backwards(a, tickers, dflt) ==
    close_from(a, IF dflt THEN [i \in 1..Len(a.positions) |->
                                  a.positions[Len(a.positions) + 1 - i].ticker]
                  ELSE tickers, 1)

\* close_positions(tickers); dflt: tickers was omitted
close_positions(a, tickers, dflt) ==
    close_from(a, IF dflt THEN [i \in 1..Len(a.positions) |-> a.positions[i].ticker]
                  ELSE tickers, 1)

\* ------------------------------------------------------------ transitions
\* the record of a call: method and exception raised
Call(op, err) == [op |-> op, err |-> err]

\* the limits of the main specification
Lim == [orders |-> MaxOrders, trades |-> MaxTrades, hold |-> MaxHold, cash |-> MaxCash]

\* the states explored: lists, holdings and balance within the limits
InBounds(a, lim) ==
    /\ Len(a.orders) <= lim.orders
    /\ Len(a.trades) <= lim.trades
    /\ a.cash <= lim.cash
    /\ \A i \in 1..Len(a.positions) :
           /\ Abs(a.positions[i].qty) <= lim.hold
           /\ a.positions[i].price[2] <= MaxDenom

\* the account becomes a, whether the call op returned or raised
Becomes(a, lim, op) ==
    /\ InBounds(a, lim)
    /\ cash' = a.cash
    /\ positions' = a.positions
    /\ orders' = a.orders
    /\ trades' = a.trades
    /\ last' = Call(op, a.err)
    /\ UNCHANGED <<STOCK_PRICES, constructed, moves>>

Init ==
    /\ STOCK_PRICES = [t \in {"AAPL", "GOOGL", "MSFT"} |->
                          IF t = "MSFT" THEN 400 ELSE 200]
    /\ constructed = FALSE
    /\ cash = 0
    /\ positions = <<>>
    /\ orders = <<>>
    /\ trades = <<>>
    /\ last = Call("none", NoError)
    /\ moves = 0

\* mutant: a starting balance of 0 is refused
AccountError_refuses_zero(starting_balance) ==
    IF starting_balance <= 0 THEN "ValueError" ELSE NoError

\* Account(starting_balance)
AccountError(starting_balance) ==
    IF starting_balance < 0 THEN "ValueError" ELSE NoError

Construct(b) ==
    /\ ~constructed
    /\ constructed' = (AccountError(b) = NoError)
    /\ cash' = IF AccountError(b) = NoError THEN b ELSE cash
    /\ positions' = <<>>
    /\ orders' = <<>>
    /\ trades' = <<>>
    /\ last' = Call("Account", AccountError(b))
    /\ UNCHANGED <<STOCK_PRICES, moves>>

Deposit(lim, amount) ==
    /\ constructed
    /\ Becomes(deposit(Cur, amount), lim, "deposit")

Withdraw(lim, amount) ==
    /\ constructed
    /\ Becomes(withdraw(Cur, amount), lim, "withdraw")

MakeOrder(lim, ticker, action, qty) ==
    /\ constructed
    /\ Becomes(make_order(Cur, ticker, action, qty), lim, "make_order")

ExecuteOrder(lim, i) ==
    /\ constructed
    /\ i \in 1..Len(orders)
    /\ Becomes(execute_order(Cur, i), lim, "execute_order")

ExecutePendingOrders(lim) ==
    /\ constructed
    /\ Becomes(execute_pending_orders(Cur), lim, "execute_pending_orders")

BuyStock(lim, ticker, qty, dflt) ==
    /\ constructed
    /\ Becomes(buy_stock(Cur, ticker, qty, dflt), lim, "buy_stock")

SellStock(lim, ticker, qty, dflt) ==
    /\ constructed
    /\ Becomes(sell_stock(Cur, ticker, qty, dflt), lim, "sell_stock")

ClosePositions(lim) ==
    /\ constructed
    /\ Becomes(close_positions(Cur, <<>>, TRUE), lim, "close_positions")

ClearFilledOrders(lim) ==
    /\ constructed
    /\ Becomes(clear_filled_orders(Cur), lim, "clear_filled_orders")

\* order.fill() on the order at index i, by the caller who holds the order
Fill(lim, i) ==
    /\ constructed
    /\ i \in 1..Len(orders)
    /\ Becomes([Cur EXCEPT !.orders[i] = fill(orders[i])], lim, "fill")

\* order.fill(amount) on the order at index i
FillAmount(lim, i, amount) ==
    /\ constructed
    /\ i \in 1..Len(orders)
    /\ Becomes(IF fillError(orders[i], amount) # NoError
               THEN Raise(Cur, fillError(orders[i], amount))
               ELSE [Cur EXCEPT !.orders[i] = fill_amount(orders[i], amount)],
               lim, "fill")

\* the price table is a module-level dict: its owner moves a listed price
SetStockPrice(ticker, price) ==
    /\ moves < MaxMoves
    /\ Listed(ticker)
    /\ STOCK_PRICES[ticker] # price
    /\ STOCK_PRICES' = [STOCK_PRICES EXCEPT ![ticker] = price]
    /\ moves' = moves + 1
    /\ last' = Call("set_price", NoError)
    /\ UNCHANGED <<constructed, cash, positions, orders, trades>>

Next ==
    \/ \E b \in Amounts : Construct(b)
    \/ \E amount \in Amounts : Deposit(Lim, amount)
    \/ \E amount \in Amounts : Withdraw(Lim, amount)
    \/ \E t \in Tickers, act \in Action, q \in Quantities : MakeOrder(Lim, t, act, q)
    \/ \E i \in 1..MaxOrders : ExecuteOrder(Lim, i)
    \/ ExecutePendingOrders(Lim)
    \/ \E t \in Tickers, q \in Quantities : BuyStock(Lim, t, q, FALSE)
    \/ \E t \in Tickers, q \in Quantities : SellStock(Lim, t, q, FALSE)
    \/ ClosePositions(Lim)
    \/ ClearFilledOrders(Lim)

Spec == Init /\ [][Next]_vars

\* the limits of the market specification
MktLim == [orders |-> MktOrders, trades |-> MktTrades, hold |-> MktHold, cash |-> MktCash]

NextMarket ==
    \/ \E b \in MktAmounts : Construct(b)
    \/ \E t \in Tickers, q \in MktQuantities : BuyStock(MktLim, t, q, FALSE)
    \/ \E t \in Tickers : BuyStock(MktLim, t, 0, TRUE)
    \/ \E t \in Tickers, q \in MktQuantities : SellStock(MktLim, t, q, FALSE)
    \/ \E t \in Tickers : SellStock(MktLim, t, 0, TRUE)
    \/ ClosePositions(MktLim)
    \/ ClearFilledOrders(MktLim)
    \/ \E t \in Tickers, p \in NewPrices : SetStockPrice(t, p)

SpecMarket == Init /\ [][NextMarket]_vars

\* the limits of the two-ticker specification
PairLim == [orders |-> PairOrders, trades |-> PairTrades, hold |-> PairHold,
            cash |-> PairCash]

NextPair ==
    \/ \E b \in PairAmounts : Construct(b)
    \/ \E t \in PairTickers, q \in PairQuantities : BuyStock(PairLim, t, q, FALSE)
    \/ \E t \in PairTickers, q \in PairQuantities : SellStock(PairLim, t, q, FALSE)
    \/ ClosePositions(PairLim)
    \/ ClearFilledOrders(PairLim)

SpecPair == Init /\ [][NextPair]_vars

\* the limits of the pending-order specification
PendLim == [orders |-> PendOrders, trades |-> MktTrades, hold |-> PendHold,
            cash |-> PendCash]

NextPending ==
    \/ \E b \in MktAmounts : Construct(b)
    \/ \E t \in Tickers, act \in Action, q \in MktQuantities : MakeOrder(PendLim, t, act, q)
    \/ \E i \in 1..PendOrders : ExecuteOrder(PendLim, i)
    \/ ClearFilledOrders(PendLim)
    \/ \E t \in Tickers, p \in NewPrices : SetStockPrice(t, p)

SpecPending == Init /\ [][NextPending]_vars

\* the limits of the fill specification
FillLim == [orders |-> FillOrders, trades |-> MktTrades, hold |-> MktHold,
            cash |-> MktCash]

NextFill ==
    \/ \E b \in MktAmounts : Construct(b)
    \/ \E t \in Tickers, act \in Action, q \in FillQuantities : MakeOrder(FillLim, t, act, q)
    \/ \E i \in 1..FillOrders : Fill(FillLim, i)
    \/ \E i \in 1..FillOrders, amount \in FillAmounts : FillAmount(FillLim, i, amount)

SpecFill == Init /\ [][NextFill]_vars

\* ----------------------------------------------------------------- claims
\* what the caller can observe of two account values being the same
Same(a, b) ==
    /\ a.cash = b.cash
    /\ a.positions = b.positions
    /\ a.orders = b.orders
    /\ a.trades = b.trades

\* quantity and average price held in ticker; 0 when there is no position
HeldQty(a, ticker) ==
    IF PosIndex(a.positions, ticker) = 0 THEN 0
    ELSE a.positions[PosIndex(a.positions, ticker)].qty

HeldPrice(a, ticker) ==
    IF PosIndex(a.positions, ticker) = 0 THEN FInt(0)
    ELSE a.positions[PosIndex(a.positions, ticker)].price

\* quantities and amounts tried on every reachable state
TryQty    == 0 .. (MaxHold + 1)
TryAmount == {0 - 200, 0 - 1, 0, 200, 400, 600}

\* C1: in every state reachable by any sequence of Account calls, calls that
\* raise included, the balance is >= 0.
C1_BalanceNonNegative == cash >= 0

\* C1 witness: a call was refused by the balance setter: an order that costs
\* more than the balance was executed and the call raised.
C1_Witness ==
    /\ last.op \in {"execute_order", "execute_pending_orders"}
    /\ last.err = "ValueError"
    /\ \E i \in 1..Len(orders) :
          /\ orders[i].action = BUY
          /\ status(orders[i]) = "FILLED"
          /\ size(orders[i]) > cash

\* C2: in every reachable state every position's quantity is >= 0.
C2_QuantityNonNegative ==
    \A i \in 1..Len(positions) : positions[i].qty >= 0

\* C3: a call of execute_order, execute_pending_orders, buy_stock, sell_stock
\* or close_positions that raises leaves balance, positions, orders and trades
\* exactly as they were before the call.
C3_RaisingCallChangesNothing ==
    [][(/\ last'.err # NoError
        /\ last'.op \in {"execute_order", "execute_pending_orders", "buy_stock",
                         "sell_stock", "close_positions"})
       => UNCHANGED <<cash, positions, orders, trades>>]_vars

\* C4: for a ticker held with quantity Q, sell_stock(t, q) with 0 <= q <= Q
\* succeeds, appends one Trade and adds (current price - average entry
\* price) * q to realized_pnl; with q > Q it fails.
C4_SellWithinHolding ==
    constructed =>
        \A i \in 1..Len(positions), q \in 0 .. (MktHold + 1) :
            LET p == positions[i]
                r == sell_stock(Cur, p.ticker, q, FALSE)
            IN  IF q <= p.qty
                THEN /\ r.err = NoError
                     /\ Len(r.trades) = Len(trades) + 1
                     /\ realized_pnl(r) =
                            FAdd(realized_pnl(Cur),
                                 FScale(FSub(FInt(get_stock_price(p.ticker)), p.price), q))
                ELSE r.err # NoError

\* C5 as claimed: buy_stock(t, q) with q * price(t) <= balance succeeds for
\* every q >= 0 with balance' = balance - q * price(t), qty' = oldQty + q, and
\* price' = price(t) when oldQty = 0.
C5_BuyAnyQuantity ==
    constructed =>
        \A t \in Tickers, q \in TryQty :
            (Listed(t) /\ q * get_stock_price(t) <= cash) =>
                LET r == buy_stock(Cur, t, q, FALSE)
                IN  /\ r.err = NoError
                    /\ r.cash = cash - q * get_stock_price(t)
                    /\ HeldQty(r, t) = HeldQty(Cur, t) + q
                    /\ (HeldQty(Cur, t) = 0 =>
                            HeldPrice(r, t) = FInt(get_stock_price(t)))

\* C5 amended: buy_stock(t, q) with q * price(t) <= balance succeeds with
\* balance' = balance - q * price(t) and qty' = oldQty + q, except that it
\* raises ZeroDivisionError when q > 0 and oldQty = -q; when oldQty = 0 and
\* q > 0, price' = price(t); when q = 0 the average price stays as it was
\* (0 for a position the call created).
C5_Buy ==
    constructed =>
        \A t \in Tickers, q \in TryQty :
            (Listed(t) /\ q * get_stock_price(t) <= cash) =>
                LET r == buy_stock(Cur, t, q, FALSE)
                IN  IF q > 0 /\ HeldQty(Cur, t) + q = 0
                    THEN r.err = "ZeroDivisionError"
                    ELSE /\ r.err = NoError
                         /\ r.cash = cash - q * get_stock_price(t)
                         /\ HeldQty(r, t) = HeldQty(Cur, t) + q
                         /\ (HeldQty(Cur, t) = 0 /\ q > 0 =>
                                HeldPrice(r, t) = FInt(get_stock_price(t)))
                         /\ (q = 0 => HeldPrice(r, t) = HeldPrice(Cur, t))

\* C5 witness: buy_stock returned after buying a positive quantity at the
\* table price.
C5_Witness ==
    /\ last.op = "buy_stock"
    /\ last.err = NoError
    /\ Len(orders) > 0
    /\ orders[Len(orders)].action = BUY
    /\ orders[Len(orders)].amount > 0
    /\ HeldQty(Cur, orders[Len(orders)].ticker) = orders[Len(orders)].amount
    /\ HeldPrice(Cur, orders[Len(orders)].ticker) = FInt(orders[Len(orders)].price)

\* C6: a request rejected by input validation raises and leaves balance,
\* positions, orders and trades unchanged: a negative deposit, a negative or
\* too large withdrawal, a BUY dearer than the balance, a SELL of more than is
\* held or of a ticker with no position, an unlisted ticker, a negative
\* quantity.
Rejected(r) == r.err # NoError /\ Same(r, Cur)

RoundTripDone(r, ticker, bal) ==
    /\ r.err = NoError
    /\ realized_pnl(r) = FInt(0)
    /\ HeldQty(r, ticker) = 0
    /\ r.cash = bal

\* C7 as claimed: with no holding in t and no trades, buy_stock(t, q) then
\* sell_stock(t, q) succeeds for every affordable q >= 0 and gives
\* realized_pnl = 0, qty = 0 and the balance of before the buy, also when
\* another ticker was bought in between.
C7_RoundTripRestoresBalance ==
    (constructed /\ trades = <<>>) =>
        \A t \in PairTickers, q \in 0 .. PairHold :
            (HeldQty(Cur, t) = 0 /\ q * get_stock_price(t) <= cash) =>
                LET a1 == buy_stock(Cur, t, q, FALSE)
                IN  /\ RoundTripDone(sell_stock(a1, t, q, FALSE), t, cash)
                    /\ \A u \in PairTickers \ {t}, k \in 0 .. PairHold :
                          LET b1 == buy_stock(a1, u, k, FALSE)
                          IN  b1.err = NoError =>
                                RoundTripDone(sell_stock(b1, t, q, FALSE), t, cash)

\* C7 amended: the same, except that when k shares of another ticker u were
\* bought in between, the balance after the sale is the balance of before the
\* buy less k * price(u), the cost of that other purchase.
C7_RoundTrip ==
    (constructed /\ trades = <<>>) =>
        \A t \in PairTickers, q \in 0 .. PairHold :
            (HeldQty(Cur, t) = 0 /\ q * get_stock_price(t) <= cash) =>
                LET a1 == buy_stock(Cur, t, q, FALSE)
                IN  /\ RoundTripDone(sell_stock(a1, t, q, FALSE), t, cash)
                    /\ \A u \in PairTickers \ {t}, k \in 0 .. PairHold :
                          LET b1 == buy_stock(a1, u, k, FALSE)
                          IN  b1.err = NoError =>
                                RoundTripDone(sell_stock(b1, t, q, FALSE), t,
                                              cash - k * get_stock_price(u))

\* C7 witness: the order list is the round trip with a purchase in between
\* (buy t, buy u, sell t, all of a positive quantity) and the sale returned.
C7_Witness ==
    /\ last.op = "sell_stock"
    /\ last.err = NoError
    /\ Len(orders) = 3
    /\ Len(trades) = 1
    /\ orders[1].action = BUY /\ orders[2].action = BUY /\ orders[3].action = SELL
    /\ orders[1].ticker = orders[3].ticker
    /\ orders[2].ticker # orders[1].ticker
    /\ orders[1].amount > 0
    /\ orders[2].amount > 0
    /\ orders[3].amount = orders[1].amount
    /\ HeldQty(Cur, orders[1].ticker) = 0
    /\ HeldQty(Cur, orders[2].ticker) = orders[2].amount
    /\ realized_pnl(Cur) = FInt(0)

\* C8: executing a SELL order through execute_order appends exactly one Trade
\* for that order to the trade list.
C8_ExecutedSellRecordsTrade ==
    constructed =>
        \A i \in 1..Len(orders) :
            orders[i].action = SELL =>
                LET r == execute_order(Cur, i)
                IN  r.err = NoError =>
                        /\ Len(r.trades) = Len(trades) + 1
                        /\ r.trades[Len(r.trades)].order = r.orders[i]

\* C9: Account(b) with b >= 0 gives balance b, no orders, trades or positions,
\* pnl = 0, realized_pnl = 0 and equity = balance; with b < 0 it raises and no
\* account exists.
C9_Construction ==
    [][\A b \in Amounts :
          Construct(b) =>
              IF b >= 0
              THEN /\ constructed'
                   /\ last'.err = NoError
                   /\ cash' = b
                   /\ orders' = <<>>
                   /\ trades' = <<>>
                   /\ positions' = <<>>
                   /\ pnl(Cur)' = FInt(0)
                   /\ realized_pnl(Cur)' = FInt(0)
                   /\ equity(Cur)' = b
              ELSE /\ ~constructed'
                   /\ last'.err # NoError]_vars

\* C9 witness: Account(b) has just returned an account with money in it.
C9_Witness ==
    /\ last.op = "Account"
    /\ last.err = NoError
    /\ constructed
    /\ cash > 0

\* C10 as claimed: the order of a successful make_order(t, action, q), for
\* every accepted q >= 0, has filled = 0 and status UNFILLED and is the last
\* element of the order list, which is otherwise unchanged.
C10_NewOrderUnfilled ==
    constructed =>
        \A t \in Tickers, act \in Action, q \in TryQty :
            LET r == make_order(Cur, t, act, q)
                o == r.orders[Len(r.orders)]
            IN  r.err = NoError =>
                    /\ r.orders = Append(orders, o)
                    /\ o.ticker = t /\ o.action = act /\ o.amount = q
                    /\ o.filled = 0
                    /\ status(o) = "UNFILLED"

\* C10 amended: the same for q > 0; for q = 0 the order has filled = 0 and its
\* status is FILLED, because filled equals the requested quantity.
C10_NewOrder ==
    constructed =>
        \A t \in Tickers, act \in Action, q \in TryQty :
            LET r == make_order(Cur, t, act, q)
                o == r.orders[Len(r.orders)]
            IN  r.err = NoError =>
                    /\ r.orders = Append(orders, o)
                    /\ o.ticker = t /\ o.action = act /\ o.amount = q
                    /\ o.filled = 0
                    /\ status(o) = IF q > 0 THEN "UNFILLED" ELSE "FILLED"

\* C10 witness: make_order has just appended an unfilled order for a positive
\* quantity behind an older order.
C10_Witness ==
    /\ last.op = "make_order"
    /\ last.err = NoError
    /\ Len(orders) >= 2
    /\ orders[Len(orders)].amount > 0
    /\ orders[Len(orders)].filled = 0
    /\ status(orders[Len(orders)]) = "UNFILLED"

\* the sums the claims expect of positions ps when the price table is prices
RECURSIVE PnlAt(_, _, _)
PnlAt(ps, prices, i) ==
    IF i > Len(ps) THEN FInt(0)
    ELSE FAdd(Frac(ps[i].qty * (prices[ps[i].ticker] * ps[i].price[2] - ps[i].price[1]),
                   ps[i].price[2]),
              PnlAt(ps, prices, i + 1))

RECURSIVE ValueAt(_, _, _)
ValueAt(ps, prices, i) ==
    IF i > Len(ps) THEN 0
    ELSE ps[i].qty * prices[ps[i].ticker] + ValueAt(ps, prices, i + 1)

\* C11: when the table price of a ticker changes with no account call in
\* between, balance, quantities and average prices stay as they were, and in
\* the state the change leads to (the state the next step starts from) pnl is
\* the sum of qty * (current price - average price) over the positions
\* (q * (p1 - p0) for a single position) and equity is balance + sum of
\* qty * current price.
C11_PriceMove ==
    [][/\ STOCK_PRICES' # STOCK_PRICES =>
             /\ cash' = cash
             /\ positions' = positions
       /\ last.op = "set_price" =>
             /\ pnl(Cur) = PnlAt(positions, STOCK_PRICES, 1)
             /\ equity(Cur) = cash + ValueAt(positions, STOCK_PRICES, 1)
             /\ Len(positions) = 1 =>
                   LET q  == positions[1].qty
                       p0 == positions[1].price
                       p1 == STOCK_PRICES[positions[1].ticker]
                   IN  /\ pnl(Cur) = FScale(FSub(FInt(p1), p0), q)
                       /\ equity(Cur) = cash + q * p1]_vars

\* C11 witness: the price of a held ticker has just moved away from the
\* average price paid, so pnl is not 0.
C11_Witness ==
    /\ last.op = "set_price"
    /\ Len(positions) = 1
    /\ positions[1].qty > 0
    /\ FInt(get_stock_price(positions[1].ticker)) # positions[1].price
    /\ pnl(Cur) # FInt(0)
    /\ equity(Cur) # cash + positions[1].qty * positions[1].price[1]

\* C12: from any reachable state, calling clear_filled_orders twice in a row
\* leaves the same orders, balance, positions and trades as calling it once,
\* and after a call no order with status FILLED remains; the call leaves
\* balance, positions and trades as they were.
C12_ClearIdempotent ==
    constructed =>
        LET r  == clear_filled_orders(Cur)
            rr == clear_filled_orders(r)
        IN  /\ r.err = NoError /\ rr.err = NoError
            /\ Same(rr, r)
            /\ \A i \in 1..Len(r.orders) : status(r.orders[i]) # "FILLED"
            /\ r.cash = cash /\ r.positions = positions /\ r.trades = trades

\* C12 witness: clear_filled_orders has just returned on an account that had
\* executed an order; an unfilled order is what is left of the list.
C12_Witness ==
    /\ last.op = "clear_filled_orders"
    /\ last.err = NoError
    /\ Len(positions) > 0
    /\ Len(orders) = 1
    /\ status(orders[1]) = "UNFILLED"

\* C13: close_positions() with no argument, called when every held quantity
\* is >= 0, succeeds and sells the full quantity of every held ticker in the
\* order of the position map: afterwards every position has quantity 0, one
\* Trade per held ticker has been appended in that order, and the balance has
\* grown by the sum of qty * current price over the positions closed.
C13_CloseAll ==
    (constructed /\ \A i \in 1..Len(positions) : positions[i].qty >= 0) =>
        LET r == close_positions(Cur, <<>>, TRUE)
        IN  /\ r.err = NoError
            /\ Len(r.positions) = Len(positions)
            /\ \A i \in 1..Len(r.positions) :
                  /\ r.positions[i].ticker = positions[i].ticker
                  /\ r.positions[i].qty = 0
            /\ Len(r.trades) = Len(trades) + Len(positions)
            /\ SubSeq(r.trades, 1, Len(trades)) = trades
            /\ \A i \in 1..Len(positions) :
                  LET tr == r.trades[Len(trades) + i]
                  IN  /\ tr.order.ticker = positions[i].ticker
                      /\ tr.order.action = SELL
                      /\ tr.order.amount = positions[i].qty
                      /\ tr.order = r.orders[Len(orders) + i]
            /\ r.cash = cash + ValueAt(positions, STOCK_PRICES, 1)

\* C13 witness: close_positions has just returned after closing two tickers,
\* one of them with shares in it: the last two orders are the two sales, in
\* the order of the position map, and the two trades are theirs.
C13_Witness ==
    /\ last.op = "close_positions"
    /\ last.err = NoError
    /\ Len(positions) = 2
    /\ positions[1].qty = 0 /\ positions[2].qty = 0
    /\ Len(trades) = 2
    /\ Len(orders) >= 2
    /\ trades[1].order = orders[Len(orders) - 1]
    /\ trades[2].order = orders[Len(orders)]
    /\ trades[1].order.ticker = positions[1].ticker
    /\ trades[2].order.ticker = positions[2].ticker
    /\ trades[1].order.amount + trades[2].order.amount > 0
    /\ cash > 0

\* C14: executing an order changes the quantity of its position by the
\* order's remaining (unfilled) amount, added for a BUY and subtracted for a
\* SELL, and marks the order FILLED; so executing an order that is already
\* FILLED leaves the quantity as it was.
C14_AppliesRemaining ==
    constructed =>
        \A i \in 1..Len(orders) :
            LET o == orders[i]
                r == execute_order(Cur, i)
            IN  r.err = NoError =>
                    /\ HeldQty(r, o.ticker) =
                          HeldQty(Cur, o.ticker)
                            + (IF o.action = BUY THEN remaining(o) ELSE 0 - remaining(o))
                    /\ status(r.orders[i]) = "FILLED"
                    /\ (status(o) = "FILLED" =>
                            HeldQty(r, o.ticker) = HeldQty(Cur, o.ticker))

\* C15: the Trade recorded by a sell has an entry_price equal to the average
\* price the position had before the sale changed the position, whatever buys
\* (at whatever prices) came before the sell.
C15_EntryPriceBeforeSale ==
    constructed =>
        \A t \in Tickers, q \in 0 .. (MktHold + 1), dflt \in BOOLEAN :
            LET r == sell_stock(Cur, t, q, dflt)
            IN  r.err = NoError =>
                    /\ Len(r.trades) = Len(trades) + 1
                    /\ r.trades[Len(r.trades)].order.ticker = t
                    /\ r.trades[Len(r.trades)].entry_price = HeldPrice(Cur, t)

\* C15 witness: sell_stock has just recorded a Trade whose entry price is an
\* average of buys at different prices: it is none of the table's prices.
C15_Witness ==
    /\ last.op = "sell_stock"
    /\ last.err = NoError
    /\ Len(trades) > 0
    /\ Len(orders) > 0
    /\ trades[Len(trades)].order = orders[Len(orders)]
    /\ orders[Len(orders)].amount > 0
    /\ trades[Len(trades)].entry_price \notin {FInt(200), FInt(300)}
    /\ trades[Len(trades)].entry_price = HeldPrice(Cur, orders[Len(orders)].ticker)

\* C16: when the table price of a ticker has changed since make_order,
\* execute_order uses the price kept in the order for all of its
\* calculations: the balance goes down (BUY) or up (SELL) by amount * order
\* price, and the order price is the price that enters the position's average
\* price, so a BUY into an empty position leaves position.price = order.price.
C16_FrozenPrice ==
    constructed =>
        \A i \in 1..Len(orders) :
            LET o == orders[i]
                r == execute_order(Cur, i)
                n == HeldQty(Cur, o.ticker)
                p == HeldPrice(Cur, o.ticker)
            IN  (r.err = NoError /\ o.price # get_stock_price(o.ticker)) =>
                    /\ r.cash = cash - (IF o.action = BUY THEN o.amount * o.price
                                        ELSE 0 - o.amount * o.price)
                    /\ (o.action = BUY /\ o.amount > 0) =>
                          /\ FScale(HeldPrice(r, o.ticker), n + o.amount) =
                                FAdd(FScale(p, n), FInt(o.amount * o.price))
                          /\ (n = 0 => HeldPrice(r, o.ticker) = FInt(o.price))

\* deltas and prices tried on every position of a reachable state
TryDelta == (0 - (MaxHold + 1)) .. (MaxHold + 1)
TryPrice == {200, 300}

\* C17: Position.update changes the average price only when the quantity
\* increases: a delta qty > 0 at price p sets the price so that
\* newPrice * (oldQty + qty) = oldQty * oldPrice + qty * p, and a delta <= 0
\* (every sell, also one that brings the quantity to 0) leaves the price as it
\* was; the quantity becomes oldQty + qty.
C17_AveragePrice ==
    \A i \in 1..Len(positions), qty \in TryDelta, p \in TryPrice :
        LET pos == positions[i]
        IN  /\ updateError(pos, qty) = NoError
            /\ updateError(pos, qty) = NoError =>
                  LET new == update(pos, qty, p)
                  IN  /\ new.qty = pos.qty + qty
                      /\ new.ticker = pos.ticker
                      /\ IF qty > 0
                         THEN FScale(new.price, pos.qty + qty) =
                                  FAdd(FScale(pos.price, pos.qty), FInt(qty * p))
                         ELSE new.price = pos.price

\* amounts passed to fill on every order of a reachable state
TryFill == (0 - 1) .. 4

\* C18: through every sequence of fill calls every order keeps
\* 0 <= filled <= amount and filled never decreases; fill(amount) with
\* amount < 0 or amount > remaining raises and leaves filled as it was, any
\* other fill(amount) adds amount to filled, and fill() sets filled to the
\* amount ordered.
C18_Filled ==
    [][/\ Len(orders') >= Len(orders)
       /\ \A i \in 1..Len(orders') :
             0 <= orders'[i].filled /\ orders'[i].filled <= orders'[i].amount
       /\ \A i \in 1..Len(orders) :
             /\ orders'[i].filled >= orders[i].filled
             /\ (last'.op = "fill" /\ last'.err # NoError) => orders'[i] = orders[i]
             /\ fill(orders[i]).filled = orders[i].amount
             /\ \A amount \in TryFill :
                   IF amount < 0 \/ amount > remaining(orders[i])
                   THEN fillError(orders[i], amount) # NoError
                   ELSE /\ fillError(orders[i], amount) = NoError
                        /\ fill_amount(orders[i], amount).filled =
                              orders[i].filled + amount]_vars

\* C18 witness: fill(amount) has just been refused on an order that earlier
\* fills had left partially filled.
C18_Witness ==
    /\ last.op = "fill"
    /\ last.err = "ValueError"
    /\ \E i \in 1..Len(orders) :
          /\ status(orders[i]) = "PARTIALLY_FILLED"
          /\ orders[i].filled = 2
          /\ remaining(orders[i]) = 1

\* C19: buy_stock(t) with the quantity omitted buys floor(balance / price(t))
\* shares: it succeeds for every listed ticker and leaves
\* 0 <= balance < price(t); sell_stock(t) with the quantity omitted, for a
\* ticker that has a position, sells the whole holding and leaves quantity 0.
C19_DefaultQuantity ==
    constructed =>
        \A t \in Tickers :
            /\ Listed(t) =>
                  LET r == buy_stock(Cur, t, 0, TRUE)
                  IN  /\ r.err = NoError
                      /\ r.orders[Len(r.orders)].amount = cash \div get_stock_price(t)
                      /\ HeldQty(r, t) = HeldQty(Cur, t) + cash \div get_stock_price(t)
                      /\ 0 <= r.cash /\ r.cash < get_stock_price(t)
            /\ PosIndex(positions, t) # 0 =>
                  LET r == sell_stock(Cur, t, 0, TRUE)
                  IN  /\ r.err = NoError
                      /\ r.orders[Len(r.orders)].amount = HeldQty(Cur, t)
                      /\ HeldQty(r, t) = 0

\* C20: while the prices stay as they are, no call of make_order,
\* execute_order, execute_pending_orders, buy_stock, sell_stock,
\* close_positions or clear_filled_orders, whether it returns or raises,
\* changes equity = balance + sum of qty * price; deposit and withdraw change
\* it by the amount deposited or withdrawn (by nothing when they raise).
C20_EquityConserved ==
    constructed =>
        /\ \A t \in Tickers, act \in Action, q \in (0 - 1) .. (MaxHold + 1) :
              /\ equity(make_order(Cur, t, act, q)) = equity(Cur)
              /\ equity(buy_stock(Cur, t, q, FALSE)) = equity(Cur)
              /\ equity(sell_stock(Cur, t, q, FALSE)) = equity(Cur)
        /\ \A i \in 1..Len(orders) : equity(execute_order(Cur, i)) = equity(Cur)
        /\ equity(execute_pending_orders(Cur)) = equity(Cur)
        /\ equity(close_positions(Cur, <<>>, TRUE)) = equity(Cur)
        /\ equity(clear_filled_orders(Cur)) = equity(Cur)
        /\ \A x \in TryAmount :
              /\ equity(deposit(Cur, x)) =
                    equity(Cur) + (IF deposit(Cur, x).err = NoError THEN x ELSE 0)
              /\ equity(withdraw(Cur, x)) =
                    equity(Cur) - (IF withdraw(Cur, x).err = NoError THEN x ELSE 0)

====
